---- MODULE Spec2Model ----
(***************************************************************************)
(* The Spanish inverse-text-normalization money tagger, MoneyFst           *)
(* (inverse_text_normalization/es/taggers/money.py).                       *)
(*                                                                         *)
(* A transducer is modelled by its weighted relation: a set of paths       *)
(* <<input, output, weight>>.  An input is a sequence of input symbols (a   *)
(* word, or one whitespace character " "), an output a sequence of output  *)
(* atoms (a literal the grammar inserts, a digit, a currency symbol), a     *)
(* weight an integer number of tenths.  The grammar's sub-graphs are the    *)
(* definitions that carry the names of the Python variables; the state      *)
(* machine walks one path of MoneyFst.fst through the concatenations of     *)
(* graph_integer and graph_decimal, recording the text consumed and the     *)
(* annotation emitted so far.                                               *)
(***************************************************************************)
EXTENDS Integers, Sequences, FiniteSets, TLC

VARIABLES input_case, pc, input, output, weight, trace

vars == <<input_case, pc, input, output, weight, trace>>

\* How many whitespace characters more than the fewest it accepts (none for
\* delete_space, one for delete_extra_space) a whitespace run may hold.
MaxExtraSpaces == 1

INPUT_LOWER_CASED == "lower_cased"
INPUT_CASED == "cased"

\* weight of pynutil.add_weight(..., -0.7), in tenths
cents_weight == -7

----------------------------------------------------------------------------
(* pynini / pynutil operations on relations *)

EPSILON == <<>>

insert(o) == {<<EPSILON, o, 0>>}

accep(s) == {<<s, s, 0>>}

delete(A) == {<<p[1], EPSILON, p[3]>> : p \in A}

cross(A, o) == {<<p[1], o, p[3]>> : p \in A}

invert(A) == {<<p[2], p[1], p[3]>> : p \in A}

union(A, B) == A \cup B

concat(A, B) == {<<a[1] \o b[1], a[2] \o b[2], a[3] + b[3]>> : a \in A, b \in B}

compose(A, B) ==
    UNION {{<<a[1], b[2], a[3] + b[3]>> : b \in {y \in B : y[1] = a[2]}} : a \in A}

closure01(A) == A \cup {<<EPSILON, EPSILON, 0>>}

add_weight(A, w) == {<<p[1], p[2], p[3] + w>> : p \in A}

\* (NEMO_SIGMA - A) @ B : the paths of B whose input A does not accept
sigma_minus_compose(A, B) == {p \in B : \A a \in A : a[1] # p[1]}

string_file(T) == {<<e[1], e[2], 0>> : e \in T}

----------------------------------------------------------------------------
(* graph_utils *)

Digits == <<"0", "1", "2", "3", "4", "5", "6", "7", "8", "9">>

NEMO_DIGIT == {<<<<Digits[k]>>, <<Digits[k]>>, 0>> : k \in 1..10}

NEMO_SPACE == " "

NEMO_NON_BREAKING_SPACE == "\\u00A0"

Spaces(k) == [j \in 1..k |-> NEMO_SPACE]

delete_space == {<<Spaces(k), EPSILON, 0>> : k \in 0..MaxExtraSpaces}

delete_extra_space ==
    {<<Spaces(k), <<NEMO_SPACE>>, 0>> : k \in 1..(1 + MaxExtraSpaces)}

insert_space == insert(<<NEMO_SPACE>>)

convert_space(A) ==
    {<<p[1],
       [k \in 1..Len(p[2]) |->
           IF p[2][k] = NEMO_SPACE THEN NEMO_NON_BREAKING_SPACE ELSE p[2][k]],
       p[3]>> : p \in A}

\* the first letter of a word, upper-cased
Capital ==
    ("un" :> "Un") @@ ("una" :> "Una") @@ ("con" :> "Con") @@ ("y" :> "Y")
    @@ ("cinco" :> "Cinco") @@ ("doce" :> "Doce") @@ ("cien" :> "Cien")
    @@ ("dos" :> "Dos")
    @@ ("dólar" :> "Dólar") @@ ("dólares" :> "Dólares")
    @@ ("euro" :> "Euro") @@ ("euros" :> "Euros")
    @@ ("céntimo" :> "Céntimo") @@ ("céntimos" :> "Céntimos")

capitalized_input_graph(A) ==
    A \cup {<<<<Capital[Head(p[1])]>> \o Tail(p[1]), p[2], p[3]>> :
                p \in {q \in A : q[1] # EPSILON /\ Head(q[1]) \in DOMAIN Capital}}

add_tokens(o) == <<"money", " ", "{", " ">> \o o \o <<" ", "}">>

----------------------------------------------------------------------------
(* data/money/*.tsv : normalized form <TAB> spoken form *)

currency_major_singular ==
    {<<<<"$">>, <<"dólar">>>>, <<<<"€">>, <<"euro">>>>}

currency_major_plural ==
    {<<<<"$">>, <<"dólares">>>>, <<<<"€">>, <<"euros">>>>}

currency_major_singular_capitalized ==
    {<<<<"US$">>, <<"Dólar", " ", "Estadounidense">>>>}

currency_major_plural_capitalized ==
    {<<<<"US$">>, <<"Dólares", " ", "Estadounidenses">>>>}

currency_minor_singular ==
    {<<<<"cts">>, <<"céntimo">>>>}

currency_minor_plural ==
    {<<<<"cts">>, <<"céntimos">>>>}

----------------------------------------------------------------------------
(* CardinalFst.graph_no_exception : spoken cardinal -> digit string *)

CardinalLexicon ==
    {<<<<"un">>, 1>>, <<<<"una">>, 1>>, <<<<"cinco">>, 5>>, <<<<"doce">>, 12>>,
     <<<<"cien">>, 100>>}

RECURSIVE DigitString(_)
DigitString(n) ==
    IF n < 10 THEN <<Digits[n + 1]>>
    ELSE DigitString(n \div 10) \o <<Digits[(n % 10) + 1]>>

cardinal_graph_no_exception(case) ==
    LET graph == {<<e[1], DigitString(e[2]), 0>> : e \in CardinalLexicon}
    IN  IF case = INPUT_CASED THEN capitalized_input_graph(graph) ELSE graph

(* DecimalFst.final_graph_wo_negative : spoken decimal -> integer_part,
   fractional_part and quantity fields *)

DecimalLexicon ==
    {<<<<"dos", " ", "coma", " ", "cinco">>,
       <<"integer_part: \"", "2", "\"", " ", "fractional_part: \"", "5", "\"">>>>,
     <<<<"un", " ", "millón">>,
       <<"integer_part: \"", "1", "\"", " ", "quantity: \"", "millón", "\"">>>>}

decimal_final_graph_wo_negative(case) ==
    LET graph == {<<e[1], e[2], 0>> : e \in DecimalLexicon}
    IN  IF case = INPUT_CASED THEN capitalized_input_graph(graph) ELSE graph

----------------------------------------------------------------------------
(* MoneyFst.__init__ *)

cardinal_graph(case) == cardinal_graph_no_exception(case)

graph_decimal_final(case) == decimal_final_graph_wo_negative(case)

unit_singular(case) ==
    LET lower == invert(string_file(currency_major_singular))
    IN  IF case = INPUT_CASED
        THEN union(capitalized_input_graph(lower),
                   invert(string_file(currency_major_singular_capitalized)))
        ELSE lower

unit_plural(case) ==
    LET lower == invert(string_file(currency_major_plural))
    IN  IF case = INPUT_CASED
        THEN union(capitalized_input_graph(lower),
                   invert(string_file(currency_major_plural_capitalized)))
        ELSE lower

unit_minor_singular(case) ==
    LET lower == invert(string_file(currency_minor_singular))
    IN  IF case = INPUT_CASED THEN capitalized_input_graph(lower) ELSE lower

unit_minor_plural(case) ==
    LET lower == invert(string_file(currency_minor_plural))
    IN  IF case = INPUT_CASED THEN capitalized_input_graph(lower) ELSE lower

graph_unit_singular(case) ==
    concat(concat(insert(<<"currency: \"">>), convert_space(unit_singular(case))),
           insert(<<"\"">>))

\* mutant: the currency field holds the spoken unit, not its normalized form
graph_unit_plural_spoken(case) ==
    concat(concat(insert(<<"currency: \"">>),
                  {<<p[1], p[1], p[3]>> : p \in unit_plural(case)}),
           insert(<<"\"">>))

graph_unit_plural(case) ==
    concat(concat(insert(<<"currency: \"">>), convert_space(unit_plural(case))),
           insert(<<"\"">>))

graph_unit_minor_singular(case) ==
    concat(concat(insert(<<"currency: \"">>), convert_space(unit_minor_singular(case))),
           insert(<<"\"">>))

graph_unit_minor_plural(case) ==
    concat(concat(insert(<<"currency: \"">>), convert_space(unit_minor_plural(case))),
           insert(<<"\"">>))

\* mutant: a single digit passes without the leading zero
add_leading_zero_missing ==
    union(concat(NEMO_DIGIT, NEMO_DIGIT), NEMO_DIGIT)

add_leading_zero_to_double_digit ==
    union(concat(NEMO_DIGIT, NEMO_DIGIT), concat(insert(<<"0">>), NEMO_DIGIT))

one_graph(case) ==
    IF case = INPUT_CASED
    THEN union(union(accep(<<"un">>), accep(<<"una">>)),
               union(accep(<<"Un">>), accep(<<"Una">>)))
    ELSE union(accep(<<"un">>), accep(<<"una">>))

cents_standalone(case) ==
    concat(concat(concat(concat(
        insert(<<"morphosyntactic_features: \"", ",", "\"">>),
        insert_space),
        insert(<<"fractional_part: \"">>)),
        union(concat(compose(add_weight(sigma_minus_compose(one_graph(case),
                                                            cardinal_graph(case)),
                                        cents_weight),
                             add_leading_zero_to_double_digit),
                     delete_space),
              concat(cross(one_graph(case), <<"0", "1">>), delete_space))),
        insert(<<"\"">>))

and_graph(case) ==
    IF case = INPUT_CASED
    THEN union(union(accep(<<"con">>), accep(<<"y">>)),
               union(accep(<<"Con">>), accep(<<"Y">>)))
    ELSE union(accep(<<"con">>), accep(<<"y">>))

optional_cents_standalone(case) ==
    closure01(
        concat(concat(concat(concat(
            delete_space,
            closure01(concat(delete(and_graph(case)), delete_space))),
            insert_space),
            cents_standalone(case)),
            delete(union(unit_minor_singular(case), unit_minor_plural(case)))))

\* mutant: the suffix cardinal is not composed with the two-digit filter
optional_cents_suffix_unpadded(case) ==
    closure01(
        concat(concat(concat(concat(concat(concat(
            delete_extra_space,
            insert(<<"morphosyntactic_features: \"", ",", "\"">>)),
            insert_space),
            insert(<<"fractional_part: \"">>)),
            closure01(concat(delete(union(accep(<<"con">>), accep(<<"Con">>))),
                             delete_space))),
            add_weight(cardinal_graph(case), cents_weight)),
            insert(<<"\"">>)))

optional_cents_suffix(case) ==
    closure01(
        concat(concat(concat(concat(concat(concat(
            delete_extra_space,
            insert(<<"morphosyntactic_features: \"", ",", "\"">>)),
            insert_space),
            insert(<<"fractional_part: \"">>)),
            closure01(concat(delete(union(accep(<<"con">>), accep(<<"Con">>))),
                             delete_space))),
            add_weight(compose(cardinal_graph(case), add_leading_zero_to_double_digit),
                       cents_weight)),
            insert(<<"\"">>)))

\* mutant: the synthesized integer part lacks its trailing space
cents_only_int_no_space == insert(<<"integer_part: \"", "0", "\"">>)

cents_only_int == insert(<<"integer_part: \"", "0", "\"", " ">>)

\* mutant: the minor unit of the cents-only path is optional
cents_only_units_optional(case) ==
    closure01(union(graph_unit_minor_singular(case), graph_unit_minor_plural(case)))

cents_only_units(case) ==
    union(graph_unit_minor_singular(case), graph_unit_minor_plural(case))

\* mutant: the cents-only path synthesizes no integer part
cents_only_graph_no_int(case) ==
    concat(concat(cents_standalone(case), accep(<<" ">>)), cents_only_units(case))

cents_only_graph(case) ==
    concat(concat(concat(cents_only_int, cents_standalone(case)),
                  accep(<<" ">>)),
           cents_only_units(case))

\* mutant: the plural branch does not exclude one_graph
integer_part_plural_any_cardinal(case) ==
    concat(concat(insert(<<"integer_part: \"">>), cardinal_graph(case)),
           insert(<<"\"">>))

integer_part_plural(case) ==
    concat(concat(insert(<<"integer_part: \"">>),
                  sigma_minus_compose(one_graph(case), cardinal_graph(case))),
           insert(<<"\"">>))

\* mutant: the singular branch writes the cents form of one
integer_part_singular_padded(case) ==
    concat(concat(insert(<<"integer_part: \"">>),
                  cross(one_graph(case), <<"0", "1">>)),
           insert(<<"\"">>))

integer_part_singular(case) ==
    concat(concat(insert(<<"integer_part: \"">>),
                  cross(one_graph(case), <<"1">>)),
           insert(<<"\"">>))

separator_unit_plural(case) == concat(delete_extra_space, graph_unit_plural(case))

separator_unit_singular(case) == concat(delete_extra_space, graph_unit_singular(case))

de_separator_unit_plural(case) ==
    concat(concat(delete(accep(<<" ", "de">>)), delete_extra_space),
           graph_unit_plural(case))

----------------------------------------------------------------------------
(* One path of MoneyFst.fst.  pc is the place in final_graph:
     "start"          nothing read yet
     "unit_plural"    graph_integer, after the integer part of a quantity # 1
     "unit_singular"  graph_integer, after the integer part of "un"/"una"
     "cents"          graph_integer, after the major unit
     "unit_decimal"   graph_decimal, after the decimal number
     "final"          a complete path, framed by add_tokens
   optimize() keeps the relation and has no action of its own. *)

Init ==
    /\ input_case \in {INPUT_LOWER_CASED, INPUT_CASED}
    /\ pc = "start"
    /\ input = EPSILON
    /\ output = EPSILON
    /\ weight = 0
    /\ trace = <<>>

Walk(arc, p, next) ==
    /\ input' = input \o p[1]
    /\ output' = IF next = "final" THEN add_tokens(output \o p[2]) ELSE output \o p[2]
    /\ weight' = weight + p[3]
    /\ trace' = Append(trace, [arc |-> arc, text |-> p[1], emitted |-> p[2]])
    /\ pc' = next
    /\ UNCHANGED input_case

IntegerPlural ==
    /\ pc = "start"
    /\ \E p \in integer_part_plural(input_case) : Walk("integer_plural", p, "unit_plural")

IntegerSingular ==
    /\ pc = "start"
    /\ \E p \in integer_part_singular(input_case) : Walk("integer_singular", p, "unit_singular")

UnitPlural ==
    /\ pc = "unit_plural"
    /\ \E p \in separator_unit_plural(input_case) : Walk("unit_plural", p, "cents")

UnitSingular ==
    /\ pc = "unit_singular"
    /\ \E p \in separator_unit_singular(input_case) : Walk("unit_singular", p, "cents")

CentsStandalone ==
    /\ pc = "cents"
    /\ \E p \in optional_cents_standalone(input_case) : Walk("cents_standalone", p, "final")

CentsSuffix ==
    /\ pc = "cents"
    /\ \E p \in optional_cents_suffix(input_case) : Walk("cents_suffix", p, "final")

Decimal ==
    /\ pc = "start"
    /\ \E p \in graph_decimal_final(input_case) : Walk("decimal", p, "unit_decimal")

DecimalUnit ==
    /\ pc = "unit_decimal"
    /\ \E p \in separator_unit_plural(input_case) : Walk("decimal_unit", p, "final")

DecimalDeUnit ==
    /\ pc = "unit_decimal"
    /\ \E p \in de_separator_unit_plural(input_case) : Walk("decimal_de_unit", p, "final")

CentsOnly ==
    /\ pc = "start"
    /\ \E p \in cents_only_graph(input_case) : Walk("cents_only", p, "final")

Next ==
    \/ IntegerPlural
    \/ IntegerSingular
    \/ UnitPlural
    \/ UnitSingular
    \/ CentsStandalone
    \/ CentsSuffix
    \/ Decimal
    \/ DecimalUnit
    \/ DecimalDeUnit
    \/ CentsOnly

Spec == Init /\ [][Next]_vars

----------------------------------------------------------------------------
(* Reading an input and an annotation *)

\* the annotation inside the money { ... } frame of a complete path
Annotation == SubSeq(output, 5, Len(output) - 2)

Quote == "\""

Open(name) == name \o ": \""

FieldNames == {"integer_part", "fractional_part", "currency",
               "morphosyntactic_features", "quantity"}

Positions(ann, atom) == {i \in 1..Len(ann) : ann[i] = atom}

Count(ann, name) ==
    LET atom == Open(name)
    IN  Cardinality({i \in 1..Len(ann) : ann[i] = atom})

\* the position of the first closing quote from position j on, 0 when there
\* is none
RECURSIVE FirstQuote(_, _)
FirstQuote(ann, j) ==
    IF j > Len(ann) THEN 0
    ELSE IF ann[j] = Quote THEN j
    ELSE FirstQuote(ann, j + 1)

Closing(ann, i) == FirstQuote(ann, i + 1)

\* the annotation holds the field name exactly once, with the quoted value v
HasField(ann, name, v) ==
    /\ Count(ann, name) = 1
    /\ LET i == CHOOSE k \in Positions(ann, Open(name)) : TRUE
       IN  Closing(ann, i) > 0 /\ SubSeq(ann, i + 1, Closing(ann, i) - 1) = v

Words(s) == SelectSeq(s, LAMBDA x : x # " ")

\* words separated by whitespace, none before the first or after the last
WellSpaced(s) ==
    /\ s # <<>>
    /\ s[1] # " "
    /\ s[Len(s)] # " "
    /\ \A i \in 1..(Len(s) - 1) : s[i] = " " \/ s[i + 1] = " "

Contains(s, t) ==
    \E i \in 1..(Len(s) - Len(t) + 1) :
        s[i] = t[1] /\ SubSeq(s, i, i + Len(t) - 1) = t

TwoDigits(n) == <<Digits[(n \div 10) + 1], Digits[(n % 10) + 1]>>

Field(name, v) == <<Open(name)>> \o v \o <<Quote>>

OneWords == {<<"un">>, <<"una">>}

----------------------------------------------------------------------------
(* C1: whenever a complete path has read "<spoken n> <plural major unit>"
   with n >= 2, its annotation holds integer_part with the digit string of
   n, currency with the unit's normalized symbol, and no fractional_part. *)
C1_PluralInteger ==
    (pc = "final" /\ WellSpaced(input)) =>
        \A e \in CardinalLexicon, u \in currency_major_plural :
            (e[2] >= 2 /\ Words(input) = Words(e[1]) \o Words(u[2])) =>
                /\ HasField(Annotation, "integer_part", DigitString(e[2]))
                /\ HasField(Annotation, "currency", u[1])
                /\ Count(Annotation, "fractional_part") = 0

C1_Witness ==
    /\ pc = "final"
    /\ input = <<"doce", " ", "dólares">>
    /\ Annotation = Field("integer_part", <<"1", "2">>) \o <<" ">>
                        \o Field("currency", <<"$">>)

(* C2: whenever a complete path has read "un <singular major unit>" or
   "una <singular major unit>", its annotation holds integer_part "1" and
   currency with the unit's normalized symbol. *)
C2_SingularOne ==
    (pc = "final" /\ WellSpaced(input)) =>
        \A w \in OneWords, u \in currency_major_singular :
            Words(input) = w \o Words(u[2]) =>
                /\ HasField(Annotation, "integer_part", <<"1">>)
                /\ HasField(Annotation, "currency", u[1])

C2_Witness ==
    /\ pc = "final"
    /\ input = <<"una", " ", "euro">>
    /\ Annotation = Field("integer_part", <<"1">>) \o <<" ">>
                        \o Field("currency", <<"€">>)

Connectors == {"con", "y", "Con", "Y"}

\* the step of the path that went through cents_standalone, if any
StandaloneSteps ==
    {i \in 1..Len(trace) :
        /\ trace[i].arc \in {"cents_standalone", "cents_only"}
        /\ trace[i].text # <<>>}

\* the clause, whose words are w, read the spoken cardinal c, after at most a
\* connector and before the minor unit word
ReadsCardinal(w, c) ==
    LET n == Len(w) - 1 - Len(c)
    IN  /\ n \in {0, 1}
        /\ SubSeq(w, n + 1, Len(w) - 1) = c
        /\ n = 1 => w[1] \in Connectors

\* the spoken cardinals, as words, with the two digits C3 gives each
StandaloneCases ==
    {[words |-> Words(e[1]),
      digits |-> IF e[1] \in OneWords THEN <<"0", "1">>
                 ELSE IF e[2] >= 10 THEN DigitString(e[2])
                 ELSE <<"0", Digits[e[2] + 1]>>] : e \in CardinalLexicon}

\* the fractional_part value of step i, <<>> when it emits none
FractionalOf(i) ==
    LET ann == trace[i].emitted
        at == Positions(ann, Open("fractional_part"))
    IN  IF Cardinality(at) # 1 THEN <<>>
        ELSE LET k == CHOOSE k \in at : TRUE
             IN  SubSeq(ann, k + 1, Closing(ann, k) - 1)

(* C3: the fractional_part the standalone-cents clause emits is exactly two
   digits: "01" for "un"/"una", the digit string of c for any other spoken
   cardinal of two digits, "0" and the digit for one below 10; and the
   clause emits morphosyntactic_features "," with it. *)
C3_StandaloneTwoDigits ==
    pc = "final" =>
        \A i \in StandaloneSteps :
            LET v == FractionalOf(i)
                w == Words(trace[i].text)
            IN  /\ Len(v) = 2
                /\ \A k \in 1..2 : \E d \in 1..10 : v[k] = Digits[d]
                /\ HasField(trace[i].emitted, "morphosyntactic_features", <<",">>)
                /\ \A x \in StandaloneCases :
                       ReadsCardinal(w, x.words) => v = x.digits

C3_Witness ==
    /\ pc = "final"
    /\ input = <<"cinco", " ", "céntimos">>
    /\ StandaloneSteps = {1}
    /\ FractionalOf(1) = <<"0", "5">>
    /\ HasField(Annotation, "morphosyntactic_features", <<",">>)

\* the inputs of C4, as words: integer n >= 2, plural major unit, optional
\* "con", cents c below 100
SuffixCases ==
    {[words |-> Words(e[1]) \o Words(u[2]) \o con \o Words(c[1]),
      n |-> e[2], c |-> c[2], symbol |-> u[1]] :
        e \in {e \in CardinalLexicon : e[2] >= 2}, u \in currency_major_plural,
        c \in {c \in CardinalLexicon : c[2] < 100}, con \in {<<>>, <<"con">>}}

(* C4: whenever a complete path has read "<spoken n> <plural major unit>",
   an optional "con" and a spoken cardinal c below 100 with no minor unit
   word after it, its annotation holds integer_part with the digits of n,
   fractional_part with the two digits of c, currency with the unit's
   symbol, and morphosyntactic_features "," exactly once. *)
C4_SuffixCents ==
    (pc = "final" /\ WellSpaced(input)) =>
        LET w == Words(input)
        IN  \A x \in SuffixCases :
                w = x.words =>
                    /\ HasField(Annotation, "integer_part", DigitString(x.n))
                    /\ HasField(Annotation, "fractional_part", TwoDigits(x.c))
                    /\ HasField(Annotation, "currency", x.symbol)
                    /\ HasField(Annotation, "morphosyntactic_features", <<",">>)

C4_Witness ==
    /\ pc = "final"
    /\ input = <<"doce", " ", "dólares", " ", "con", " ", "cinco">>
    /\ HasField(Annotation, "integer_part", <<"1", "2">>)
    /\ HasField(Annotation, "fractional_part", <<"0", "5">>)
    /\ HasField(Annotation, "currency", <<"$">>)
    /\ Count(Annotation, "morphosyntactic_features") = 1

(* C5: whenever a complete path has read a spoken cardinal c below 100 and a
   minor unit word, with no integer amount and no major unit, its annotation
   holds integer_part "0", fractional_part with the two digits of c, and
   currency with the normalized form the minor lexicon gives the unit. *)
C5_CentsOnly ==
    (pc = "final" /\ WellSpaced(input)) =>
        \A c \in CardinalLexicon,
           m \in currency_minor_singular \cup currency_minor_plural :
            (c[2] < 100 /\ Words(input) = Words(c[1]) \o Words(m[2])) =>
                /\ HasField(Annotation, "integer_part", <<"0">>)
                /\ HasField(Annotation, "fractional_part", TwoDigits(c[2]))
                /\ HasField(Annotation, "currency", m[1])

C5_Witness ==
    /\ pc = "final"
    /\ input = <<"doce", " ", "céntimos">>
    /\ HasField(Annotation, "integer_part", <<"0">>)
    /\ HasField(Annotation, "fractional_part", <<"1", "2">>)
    /\ HasField(Annotation, "currency", <<"cts">>)

\* the first word of a lexicon entry's spoken form, upper-cased
CapitalizedForm(w) == <<Capital[Head(w)]>> \o Tail(w)

\* every spoken form a currency lexicon holds in lower-cased mode
LowerUnitSurfaces ==
    {e[2] : e \in currency_major_singular \cup currency_major_plural
                      \cup currency_minor_singular \cup currency_minor_plural}

\* and in cased mode
CasedUnitSurfaces ==
    LowerUnitSurfaces
        \cup {e[2] : e \in currency_major_singular_capitalized
                             \cup currency_major_plural_capitalized}
        \cup {CapitalizedForm(w) : w \in LowerUnitSurfaces}

UnitSurfaces == IF input_case = INPUT_CASED THEN CasedUnitSurfaces ELSE LowerUnitSurfaces

(* C6: every complete path has read at least one currency unit lexeme, so an
   input without any has no accepting path (NoMatch). *)
C6_UnitLexemeRead ==
    pc = "final" => \E w \in UnitSurfaces : Contains(input, w)

C6_Witness ==
    /\ pc = "final"
    /\ input = <<"dos", " ", "coma", " ", "cinco", " ", "euros">>
    /\ Cardinality({w \in UnitSurfaces : Contains(input, w)}) = 1

CapitalizedWords ==
    {Capital[w] : w \in DOMAIN Capital} \cup {"Estadounidense", "Estadounidenses"}

(* C7: in lower-cased mode no complete path has read a capitalized word after
   the first word of the input. *)
C7_LowerCasedRejectsCapitals ==
    (pc = "final" /\ input_case = INPUT_LOWER_CASED) =>
        \A i \in 2..Len(input) : input[i] \notin CapitalizedWords

OpenAtoms == {Open(n) : n \in FieldNames}

\* the fields of an annotation, in the order they stand in it
FieldOrder(ann) == SelectSeq(ann, LAMBDA a : a \in OpenAtoms)

(* C8: the complete paths that read "doce dólares y cinco céntimos" emit the
   annotation of the class docstring: the fields integer_part "12",
   fractional_part "05" and currency "$", in that order. *)
C8_DocstringShape ==
    (/\ pc = "final"
     /\ input = <<"doce", " ", "dólares", " ", "y", " ", "cinco", " ", "céntimos">>) =>
        /\ FieldOrder(Annotation)
               = <<Open("integer_part"), Open("fractional_part"), Open("currency")>>
        /\ HasField(Annotation, "integer_part", <<"1", "2">>)
        /\ HasField(Annotation, "fractional_part", <<"0", "5">>)
        /\ HasField(Annotation, "currency", <<"$">>)

\* from position i on, ann is field tokens  name: "value"  with exactly one
\* space between two of them
RECURSIVE TokensFrom(_, _)
TokensFrom(ann, i) ==
    /\ i <= Len(ann)
    /\ ann[i] \in OpenAtoms
    /\ LET j == Closing(ann, i)
       IN  /\ j > 0
           /\ \A k \in (i + 1)..(j - 1) : ann[k] \notin OpenAtoms /\ ann[k] # " "
           /\ \/ j = Len(ann)
              \/ /\ j + 2 <= Len(ann)
                 /\ ann[j + 1] = " "
                 /\ TokensFrom(ann, j + 2)

(* C9: the annotation of every complete path is a sequence of field tokens
   name: "value", every value between double quotes, consecutive tokens
   separated by exactly one space, and each of integer_part, fractional_part,
   currency and morphosyntactic_features occurs at most once. *)
C9_AnnotationFormat ==
    pc = "final" =>
        LET ann == Annotation
        IN  /\ TokensFrom(ann, 1)
            /\ \A n \in {"integer_part", "fractional_part", "currency",
                         "morphosyntactic_features"} : Count(ann, n) <= 1

C9_Witness ==
    /\ pc = "final"
    /\ input = <<"doce", " ", " ", "dólares", " ", "y", " ", "cinco", " ", "céntimos">>
    /\ Annotation = Field("integer_part", <<"1", "2">>) \o <<" ">>
                        \o Field("currency", <<"$">>) \o <<" ">>
                        \o Field("morphosyntactic_features", <<",">>) \o <<" ">>
                        \o Field("fractional_part", <<"0", "5">>)

\* the spoken forms of the plural and of the singular major lexicon, as words
PluralForms ==
    LET lower == {e[2] : e \in currency_major_plural}
    IN  {Words(f) : f \in lower \cup {CapitalizedForm(w) : w \in lower}
                              \cup {e[2] : e \in currency_major_plural_capitalized}}

SingularForms ==
    LET lower == {e[2] : e \in currency_major_singular}
    IN  {Words(f) : f \in lower \cup {CapitalizedForm(w) : w \in lower}
                              \cup {e[2] : e \in currency_major_singular_capitalized}}

OneForms ==
    IF input_case = INPUT_CASED THEN OneWords \cup {<<"Un">>, <<"Una">>} ELSE OneWords

(* C10: on a complete path of the integer clause, a unit of the plural
   lexicon follows a cardinal that is not "un"/"una" (nor "Un"/"Una" in cased
   mode), a unit of the singular lexicon follows "un"/"una" and integer_part
   is "1", and at most one cents clause follows the unit. *)
C10_NumberAgreement ==
    (pc = "final" /\ trace[1].arc \in {"integer_plural", "integer_singular"}) =>
        LET first == trace[1].text
            unit == Words(trace[2].text)
        IN  /\ unit \in PluralForms \cup SingularForms
            /\ unit \in PluralForms => first \notin OneForms
            /\ unit \in SingularForms =>
                   first \in OneForms /\ HasField(Annotation, "integer_part", <<"1">>)
            /\ Len(trace) = 3
            /\ trace[3].arc \in {"cents_standalone", "cents_suffix"}
            /\ Count(Annotation, "fractional_part") <= 1
            /\ Count(Annotation, "morphosyntactic_features") <= 1

C10_Witness ==
    /\ pc = "final"
    /\ input = <<"una", " ", "euro", " ", "y", " ", "doce", " ", "céntimos">>
    /\ HasField(Annotation, "integer_part", <<"1">>)
    /\ HasField(Annotation, "fractional_part", <<"1", "2">>)
    /\ Len(trace) = 3

====
